---------------------------- MODULE Spec2Model ----------------------------
(***************************************************************************)
(* A model of src/app/page.tsx: the TSPVisualizer class (random graph,     *)
(* distance matrix, greedy nearest-neighbour tour, timer/frame driven      *)
(* replay of the tour's steps) and the Home component that hosts it: its   *)
(* two states (animating, totalWeight), its click handlers and the effect  *)
(* that constructs the visualizer.                                         *)
(*                                                                         *)
(* Representation.                                                         *)
(*  - A JavaScript array is a sequence; element i (0-based) of the array   *)
(*    is element i+1 of the sequence.  City ids stay 0-based.              *)
(*  - Distances are IEEE doubles in the source and integers here.          *)
(*    Math.sqrt is Sqrt, defined on the perfect squares only, and the      *)
(*    factor 0.2 is Scaled, defined on the multiples of 5 only: a distance *)
(*    the model cannot hold has no value in it.  The candidate positions   *)
(*    are chosen so that every distance the specifications compute has a   *)
(*    value (see PositionsExact).  The comparisons of a root with a limit  *)
(*    (lines 108, 192, 257) compare the squares, which is the same on      *)
(*    integer coordinates.                                                 *)
(*  - Number.POSITIVE_INFINITY is the sentinel Infinity, larger than       *)
(*    every finite value, and addition saturates at it as IEEE addition    *)
(*    does.                                                                *)
(*  - null is Null for animationFrameId and NullWeight for totalWeight.    *)
(*                                                                         *)
(* Scope.  The specifications share the variables:                         *)
(*  - Spec: the page.  Home is mounted and its effect has constructed a    *)
(*    visualizer and generated a graph (lines 16-19); then clicks on the   *)
(*    Random button and on the canvas, renders that React has scheduled,   *)
(*    timer callbacks and frame callbacks.  A render in which animating    *)
(*    has changed runs the effect again (HomeEffect): the instance that    *)
(*    had the listeners is detached with its pending callbacks and a new   *)
(*    instance with a new graph takes its place.  The render and the      *)
(*    effect that follow a click are part of the click; the render of      *)
(*    what an effect has set (HomeCommit) and the effect of that render    *)
(*    (HomeEffectRun) are steps of their own;                              *)
(*  - SpecApi: one TSPVisualizer from its constructor on, its methods      *)
(*    called directly, startTSPAnimation with any start index;             *)
(*  - SpecRoute: findMinRoute alone on drawn distance matrices, one loop   *)
(*    iteration per step; SpecRouteRuns adds that the call keeps running;  *)
(*  - SpecLive: one TSPVisualizer that holds a graph of three nodes, so    *)
(*    that its first replays have three steps, its methods called          *)
(*    directly, with timers and frame callbacks that eventually fire;      *)
(*  - SpecMatrix: calculateDistanceMatrix alone on lists of canvas points, *)
(*    some of them farther apart than the cap allows for;                  *)
(*  - SpecPlace: one generateRandomGraph call, one random draw per step.   *)
(*                                                                         *)
(* animating and totalWeight are the last values passed to setAnimating    *)
(* and setTotalWeight; rendered is the animating that Home was last        *)
(* rendered with, which the Random button reads; closureAnimating is the   *)
(* animating of the render whose effect added the listeners, which the     *)
(* click listener reads.                                                   *)
(*                                                                         *)
(* Each replay record carries four fields that the code does not have:     *)
(* inst (the instance whose animateStep closure it is: 0 for the one that  *)
(* has the listeners, m for detached[m]), cancelRequested                  *)
(* (generateRandomGraph was called on the replay's own instance while the  *)
(* replay had a wake-up pending), builtFrom (this.nodes when its tour was  *)
(* built) and drawn (the step indices drawAnimationStep was called with,   *)
(* in order).  The locals of generateRandomGraph carry one: broke (the     *)
(* break of line 158 was taken).                                           *)
(***************************************************************************)
EXTENDS Integers, Sequences, FiniteSets, TLC

VARIABLES
    nodes,             \* this.nodes of the instance that has the listeners
    distanceMatrix,    \* this.distanceMatrix of that instance
    animationFrameId,  \* this.animationFrameId of that instance: Null or an id
    animating,         \* last value passed to setAnimating
    totalWeight,       \* last value passed to setTotalWeight
    replays,           \* one record per animateStep closure ever created
    timerQ,            \* pending setTimeout callbacks (replay ids), FIFO
    frameQ,            \* pending requestAnimationFrame callbacks, FIFO
    nextFrameId,       \* the id the next requestAnimationFrame returns
    route,             \* the locals of a findMinRoute call, stepped per iteration
    gen,               \* the locals of a generateRandomGraph call, stepped per draw
    detached,          \* the instances whose listeners the effect cleanup removed
    rendered,          \* the animating of Home's last render (line 63)
    closureAnimating   \* the animating of the render whose effect added the
                       \* listeners (lines 28 and 52)

vars == <<nodes, distanceMatrix, animationFrameId, animating, totalWeight,
          replays, timerQ, frameQ, nextFrameId, route, gen, detached, rendered,
          closureAnimating>>

sessionVars == <<animationFrameId, animating, totalWeight, replays, timerQ,
                 frameQ, nextFrameId, detached, rendered, closureAnimating>>

-----------------------------------------------------------------------------
(* Bounds of the model *)

\* number of candidate positions a random draw can produce (so a generated
\* graph has at most that many nodes: fewer than the 3..9 intended, which the
\* code reaches through the break of line 158)
NumPositions == 2
\* number of startTSPAnimation calls that create a replay
MaxReplays == 2
\* largest node list calculateDistanceMatrix is run on by itself
MaxMatrixNodes == 3
\* number of candidate positions a random draw can produce in a
\* generateRandomGraph call that is followed draw by draw
NumPlacePositions == 4
\* largest matrix size drawn for a stand-alone findMinRoute call
MaxN == 3
\* largest off-diagonal distance drawn for a stand-alone findMinRoute call
MaxDist == 3

-----------------------------------------------------------------------------
(* Values *)

Null == 0
NullWeight == -1
Infinity == 1000000
NoCity == -1

minDistance == 38
distanceCap == 99
scaleNum == 2
scaleDen == 10
nodeRadius == 10
canvasWidth == 800
canvasHeight == 600
minNumNodes == 3
maxNumNodes == 9

\* IEEE addition restricted to non-negative values and +Infinity
Plus(a, b) == IF a >= Infinity \/ b >= Infinity THEN Infinity ELSE a + b

\* Math.sqrt of a squared distance between two points of the canvas, where
\* the root is an integer (it is at most canvasWidth + canvasHeight); not
\* defined where the root is not an integer
Sqrt(v) == CHOOSE r \in 0..(canvasWidth + canvasHeight) : r * r = v

\* line 189: distance * 0.2, where the product is an integer; not defined
\* where it is not
Scaled(r) == CHOOSE q \in 0..r : q * scaleDen = r * scaleNum

-----------------------------------------------------------------------------
(* findMinRoute, src/app/page.tsx:377-432 *)

\* line 392: the comparison that decides whether city j replaces the best so far
CloserOrEqual(d, best) == d <= best
Closer(d, best) == d < best

\* lines 391-396: the scan over j = 0..n-1.  this.distanceMatrix[currentCity]
\* is undefined when currentCity is no row of the matrix, and indexing
\* undefined throws a TypeError; the && short-circuits for visited cities.
RECURSIVE ScanFrom(_, _, _, _, _, _, _)
ScanFrom(dm, n, cur, visited, j, minD, next) ==
    IF j >= n
    THEN [threw |-> FALSE, minDistance |-> minD, nextCity |-> next]
    ELSE IF j \in visited
    THEN ScanFrom(dm, n, cur, visited, j + 1, minD, next)
    ELSE IF cur \notin DOMAIN dm
    THEN [threw |-> TRUE, minDistance |-> minD, nextCity |-> next]
    ELSE IF Closer(dm[cur][j], minD)
    THEN ScanFrom(dm, n, cur, visited, j + 1, dm[cur][j], j)
    ELSE ScanFrom(dm, n, cur, visited, j + 1, minD, next)

\* lines 387-396
NearestUnvisited(dm, n, cur, visited) ==
    ScanFrom(dm, n, cur, visited, 0, Infinity, NoCity)

\* lines 378-383: the locals of a call
RouteLocals(start) ==
    [status        |-> "loop",
     start         |-> start,
     totalCost     |-> 0,
     currentCity   |-> start,
     visitedCities |-> {start},
     path          |-> <<start>>,
     steps         |-> <<>>]

RouteIdle ==
    [status        |-> "idle",
     start         |-> NoCity,
     totalCost     |-> 0,
     currentCity   |-> NoCity,
     visitedCities |-> {},
     path          |-> <<>>,
     steps         |-> <<>>]

\* line 386: the loop condition
MoreToVisitOrAll(n, s) == Cardinality(s.visitedCities) <= n
MoreToVisit(n, s) == Cardinality(s.visitedCities) < n

\* line 408: the running total after an expansion step
AddCostDropped(total, cost) == total
AddCost(total, cost) == Plus(total, cost)

\* lines 400-405 and 417-422: the step pushed onto steps; currentPath is a
\* copy of path taken before the next city is pushed onto it
StepRecordAfterPush(cur, next, path, cost) ==
    [currentCity |-> cur, nextCity |-> next,
     currentPath |-> Append(path, next), costAdded |-> cost]
StepRecord(cur, next, path, cost) ==
    [currentCity |-> cur, nextCity |-> next,
     currentPath |-> path, costAdded |-> cost]

\* lines 387-412: one iteration of the while loop
LoopBody(dm, n, s) ==
    LET r == NearestUnvisited(dm, n, s.currentCity, s.visitedCities)
    IN  IF r.threw THEN [s EXCEPT !.status = "threw"]
        ELSE IF r.nextCity # NoCity
        THEN [s EXCEPT
                !.steps = Append(@, StepRecord(s.currentCity, r.nextCity,
                                               s.path, r.minDistance)),
                !.totalCost = AddCost(@, r.minDistance),
                !.visitedCities = @ \cup {r.nextCity},
                !.path = Append(@, r.nextCity),
                !.currentCity = r.nextCity]
        ELSE s

\* line 425: the path after the closing step
ClosePathOpen(path, start) == path
ClosePath(path, start) == Append(path, start)

\* lines 415-431: the closing step back to the start city, and the return
CloseTour(dm, n, s) ==
    IF s.currentCity \notin DOMAIN dm
    THEN [s EXCEPT !.status = "threw"]
    ELSE LET returnCost == dm[s.currentCity][s.start]
         IN  [s EXCEPT
                !.status = "done",
                !.steps = Append(@, StepRecord(s.currentCity, s.start,
                                               s.path, returnCost)),
                !.totalCost = Plus(@, returnCost),
                !.path = ClosePath(@, s.start)]

\* lines 386-431 run to the end: status "done" (the call returns), "threw"
\* (a TypeError propagates) or "spins" (an iteration changed nothing, so the
\* while loop never exits)
RECURSIVE RunRoute(_, _, _)
RunRoute(dm, n, s) ==
    IF s.status # "loop" THEN s
    ELSE IF MoreToVisit(n, s)
    THEN LET t == LoopBody(dm, n, s)
         IN  IF t = s THEN [s EXCEPT !.status = "spins"] ELSE RunRoute(dm, n, t)
    ELSE CloseTour(dm, n, s)

\* findMinRoute(startNodeIndex) on the given matrix and node count
FindMinRoute(dm, n, start) == RunRoute(dm, n, RouteLocals(start))

-----------------------------------------------------------------------------
(* generateRandomGraph and calculateDistanceMatrix, src/app/page.tsx:103-200 *)

padding == 50
maxAttempts == 100

\* The values Math.random() can place a node at: a fixed list of points of
\* [padding, width - padding) x [padding, height - padding), of which the
\* first NumPositions are drawn from.  The third lies within minDistance of
\* the first two, the fifth within minDistance of the second and the third.
\* Two points that are not within minDistance of each other, and so can be
\* nodes together, are at a distance that is a multiple of 5 (40, 150, 130,
\* 125, 110), so that Math.sqrt(...) * 0.2 is an integer.
PositionList ==
    << <<110, 50>>, <<150, 50>>, <<125, 70>>, <<200, 170>>, <<134, 82>> >>

Positions == {PositionList[k] : k \in (1..NumPositions) \cap DOMAIN PositionList}

SquaredDistance(x1, y1, x2, y2) ==
    (x1 - x2) * (x1 - x2) + (y1 - y2) * (y1 - y2)

\* lines 107-108 and 255-257: Math.sqrt(d2) < limit and Math.sqrt(d2) <=
\* limit for a squared distance d2 and a limit that is not negative; the
\* root is below (at most) the limit exactly when d2 is below (at most) the
\* limit's square
RootBelow(d2, limit) == d2 < limit * limit
RootAtMost(d2, limit) == d2 <= limit * limit

\* lines 103-113
IsValidNodePositionLastOnly(ns, x, y, minD) ==
    \A k \in {Len(ns)} \ {0} :
        ~RootBelow(SquaredDistance(x, y, ns[k].x, ns[k].y), minD)
IsValidNodePosition(ns, x, y, minD) ==
    \A k \in 1..Len(ns) :
        ~RootBelow(SquaredDistance(x, y, ns[k].x, ns[k].y), minD)

\* lines 141-166: the node lists the placement loop can end with, from the
\* list ns of the i nodes placed so far.  Node i is the first valid draw of
\* at most maxAttempts draws; when every draw is invalid the loop breaks.
RECURSIVE Placements(_, _, _)
Placements(ns, i, numNodes) ==
    IF i >= numNodes THEN {ns}
    ELSE LET valid   == {p \in Positions :
                            IsValidNodePosition(ns, p[1], p[2], minDistance)}
             invalid == Positions \ valid
         IN  (IF maxAttempts >= 1
              THEN UNION {Placements(Append(ns, [x |-> p[1], y |-> p[2], id |-> i]),
                                     i + 1, numNodes) : p \in valid}
              ELSE {})
             \cup (IF invalid # {} \/ maxAttempts < 1 THEN {ns} ELSE {})

\* line 131: Math.floor(Math.random() * 7) + 3
NumNodesChoices == minNumNodes..maxNumNodes

\* the values this.nodes can have when generateRandomGraph returns
GenerateOutcomes == UNION {Placements(<<>>, 0, k) : k \in NumNodesChoices}

\* line 192: Math.sqrt(d2) * 0.2 is at least the cap
AtCap(d2) ==
    d2 * scaleNum * scaleNum >= (distanceCap * scaleDen) * (distanceCap * scaleDen)

\* lines 186-192: Math.min(Math.sqrt(dx*dx + dy*dy) * 0.2, 99); defined
\* where the result is an integer
ScaledDistanceUncapped(a, b) ==
    Scaled(Sqrt(SquaredDistance(a.x, a.y, b.x, b.y)))
ScaledDistance(a, b) ==
    IF AtCap(SquaredDistance(a.x, a.y, b.x, b.y)) THEN distanceCap
    ELSE Scaled(Sqrt(SquaredDistance(a.x, a.y, b.x, b.y)))

\* lines 176-200
CalculateDistanceMatrix(ns) ==
    [i \in 0..(Len(ns) - 1) |->
        [j \in 0..(Len(ns) - 1) |->
            IF i # j THEN ScaledDistance(ns[i + 1], ns[j + 1]) ELSE Infinity]]

-----------------------------------------------------------------------------
(* generateRandomGraph, draw by draw *)

\* the candidate positions of a call that is followed draw by draw: three
\* that are pairwise valid and one that is within minDistance of two of them
PlacePositions ==
    {PositionList[k] : k \in (1..NumPlacePositions) \cap DOMAIN PositionList}

\* The locals of generateRandomGraph (numNodes, i, attempts, validPosition,
\* x, y) and its position: "for" at the loop test of line 141, "while" at
\* the loop test of line 146, "matrix" before line 169.  broke records that
\* the break of line 158 was taken.
GenIdle ==
    [pc |-> "idle", numNodes |-> 0, i |-> 0, attempts |-> 0,
     validPosition |-> FALSE, x |-> 0, y |-> 0, broke |-> FALSE]

\* lines 155-159: no valid position after maxAttempts draws
SkipNode(g) ==
    [g EXCEPT !.pc = "for", !.i = @ + 1, !.x = 0, !.y = 0]
StopPlacing(g) ==
    [g EXCEPT !.pc = "matrix", !.broke = TRUE, !.x = 0, !.y = 0]

-----------------------------------------------------------------------------
(* The replay: startTSPAnimation, animateStep, drawAnimationStep *)

\* a replay still has a wake-up pending: the 1000 ms timer or a frame request
Running(r) == r.phase \in {"timer", "frame"}

SomeRunning == \E k \in DOMAIN replays : Running(replays[k])

\* cancelAnimationFrame(id): the pending frame callbacks that remain
CancelAnimationFrame(q, id) == SelectSeq(q, LAMBDA e : e.id # id)

\* the replays whose pending frame request has the id
FrameOwners(q, id) == {q[k].rid : k \in {m \in DOMAIN q : q[m].id = id}}

\* lines 119-122 and 268-270: the id tested for truthiness, then cancelled
CancelOngoing(q, id) == IF id # Null THEN CancelAnimationFrame(q, id) ELSE q

CancelledReplays(q, id) == IF id # Null THEN FrameOwners(q, id) ELSE {}

\* lines 302-337: the node indices drawAnimationStep dereferences;
\* this.nodes[c].x throws a TypeError when c is no index of this.nodes
DrawnCities(st) ==
    (IF Len(st.currentPath) >= 2
     THEN {st.currentPath[k] : k \in 1..Len(st.currentPath)} ELSE {})
    \cup {st.currentCity, st.nextCity}

DrawThrows(ns, steps, currentStep) ==
    \E c \in DrawnCities(steps[currentStep + 1]) : c \notin 0..(Len(ns) - 1)

\* line 282: animateStep's test for a step left to draw
HasMoreStepsButLast(step, steps) == step + 1 < Len(steps)
HasMoreSteps(step, steps) == step < Len(steps)

\* line 284: step++
StepSkipped(step) == step + 2
StepAdvanced(step) == step + 1

\* the nodes of the instance that replay r belongs to: the instance that
\* has the listeners (inst = 0) or a detached one
InstanceNodes(r) == IF r.inst = 0 THEN nodes ELSE detached[r.inst].nodes

\* lines 117-173, on the instance that has the listeners
GenerateRandomGraph ==
    LET gone == CancelledReplays(frameQ, animationFrameId)
    IN  /\ \E ns \in GenerateOutcomes :
              /\ nodes' = ns
              /\ distanceMatrix' = CalculateDistanceMatrix(ns)
        /\ frameQ' = CancelOngoing(frameQ, animationFrameId)
        /\ animationFrameId' = Null
        /\ animating' = FALSE
        /\ totalWeight' = NullWeight
        /\ replays' = [k \in DOMAIN replays |->
                         [replays[k] EXCEPT
                            !.phase = IF k \in gone THEN "canceled" ELSE @,
                            !.cancelRequested =
                                @ \/ (Running(replays[k]) /\ replays[k].inst = 0)]]
        /\ UNCHANGED <<timerQ, nextFrameId, route, gen, detached, rendered,
                       closureAnimating>>

\* lines 266-299, called with startNodeIndex = i on the instance that has the
\* listeners: the values it leaves in frameQ, animating, totalWeight, replays
\* and timerQ
StartOutcome(i) ==
    LET gone == CancelledReplays(frameQ, animationFrameId)
        rs   == [k \in DOMAIN replays |->
                    [replays[k] EXCEPT
                        !.phase = IF k \in gone THEN "canceled" ELSE @]]
        res  == FindMinRoute(distanceMatrix, Len(nodes), i)
        new  == Len(replays) + 1
        base == [status |-> res.status,
                 frameQ |-> CancelOngoing(frameQ, animationFrameId),
                 animating |-> TRUE, totalWeight |-> totalWeight,
                 replays |-> rs, timerQ |-> timerQ]
    IN  IF res.status # "done"
        THEN \* the TypeError leaves startTSPAnimation after setAnimating(true)
             base
        ELSE IF HasMoreSteps(0, res.steps)
        THEN \* the first animateStep() call draws step 0 and arms the timer
             [base EXCEPT
                !.replays = Append(rs,
                    [steps |-> res.steps, totalCost |-> res.totalCost,
                     step |-> StepAdvanced(0), phase |-> "timer",
                     drawn |-> <<0>>, inst |-> 0,
                     cancelRequested |-> FALSE, builtFrom |-> nodes]),
                !.timerQ = Append(timerQ, new)]
        ELSE \* no steps: the first animateStep() call completes at once
             [base EXCEPT
                !.animating = FALSE,
                !.totalWeight = res.totalCost,
                !.replays = Append(rs,
                    [steps |-> res.steps, totalCost |-> res.totalCost,
                     step |-> 0, phase |-> "done",
                     drawn |-> <<>>, inst |-> 0,
                     cancelRequested |-> FALSE, builtFrom |-> nodes])]

\* lines 266-299 as a call of its own; a call that throws in line 274 adds no
\* replay, so only a call that creates one is held back at MaxReplays
StartTSPAnimation(i) ==
    LET o == StartOutcome(i)
    IN  /\ Len(o.replays) <= MaxReplays
        /\ o.status # "spins"
        /\ frameQ' = o.frameQ
        /\ animating' = o.animating
        /\ totalWeight' = o.totalWeight
        /\ replays' = o.replays
        /\ timerQ' = o.timerQ
        /\ UNCHANGED <<nodes, distanceMatrix, animationFrameId, nextFrameId, route,
                       gen, detached, rendered, closureAnimating>>

\* lines 251-262: the first node within the node radius of the click, or NoCity
HitNode(ns, x, y) ==
    LET hits == {i \in 0..(Len(ns) - 1) :
                    RootAtMost(SquaredDistance(x, y, ns[i + 1].x, ns[i + 1].y),
                               nodeRadius)}
    IN  IF hits = {} THEN NoCity
        ELSE CHOOSE i \in hits : \A j \in hits : i <= j

\* a click on a candidate position, on a point more than nodeRadius and less
\* than nodeRadius + 1 from the first of them, or on a point away from all
ClickPoints == Positions \cup {<<120, 53>>, <<400, 300>>}

\* lines 249-263: handleNodeClick(x, y) as a call of its own
HandleNodeClick(p) ==
    IF HitNode(nodes, p[1], p[2]) = NoCity
    THEN UNCHANGED vars
    ELSE StartTSPAnimation(HitNode(nodes, p[1], p[2]))

\* lines 12-52, run by a render in which animating has changed, the replays
\* and the pending callbacks being those of o.  The cleanup (lines 45-50)
\* removes the listeners of the instance that had them; the instance keeps
\* its fields and its pending callbacks, and is kept here when a replay is
\* its own.  The body constructs an instance, gives it the listeners and
\* calls its generateRandomGraph, which finds nothing of its own to cancel
\* and calls setAnimating(false) and setTotalWeight(null).  React applies
\* the two in a later render (HomeCommit).
HomeEffect(o) ==
    LET m    == Len(detached) + 1
        kept == \E k \in DOMAIN o.replays : o.replays[k].inst = 0
    IN  /\ detached' =
               IF kept
               THEN Append(detached,
                        [nodes |-> nodes, distanceMatrix |-> distanceMatrix,
                         animationFrameId |-> animationFrameId])
               ELSE detached
        /\ replays' = [k \in DOMAIN o.replays |->
                         [o.replays[k] EXCEPT !.inst = IF @ = 0 THEN m ELSE @]]
        /\ timerQ' = o.timerQ
        /\ frameQ' = o.frameQ
        /\ \E ns \in GenerateOutcomes :
              /\ nodes' = ns
              /\ distanceMatrix' = CalculateDistanceMatrix(ns)
        /\ animationFrameId' = Null
        /\ animating' = FALSE
        /\ totalWeight' = NullWeight
        /\ UNCHANGED <<nextFrameId, route, gen>>

\* lines 27-35 and 249-263: the click listener, whose closure holds the
\* animating of the render whose effect added it.  React renders the state
\* the listener has set before the event ends, and runs the effect of that
\* render, animating having changed, before the event ends too.
HandleCanvasClick(p) ==
    IF closureAnimating
    THEN UNCHANGED vars
    ELSE IF HitNode(nodes, p[1], p[2]) = NoCity
    THEN UNCHANGED vars
    ELSE LET o == StartOutcome(HitNode(nodes, p[1], p[2]))
         IN  /\ Len(o.replays) <= MaxReplays
             /\ o.status # "spins"
             /\ IF o.animating # rendered
                THEN /\ rendered' = o.animating
                     /\ closureAnimating' = o.animating
                     /\ HomeEffect(o)
                ELSE StartTSPAnimation(HitNode(nodes, p[1], p[2]))

\* lines 7-10 and 54-78 in a task of its own: React renders Home with the
\* animating that an effect or a frame callback has set, and commits it; the
\* Random button is disabled or enabled by it (line 63).  The listeners and
\* the instance stay until the effect of this render runs.
HomeCommit ==
    /\ rendered # animating
    /\ rendered' = animating
    /\ UNCHANGED <<nodes, distanceMatrix, animationFrameId, animating,
                   totalWeight, replays, timerQ, frameQ, nextFrameId, route,
                   gen, detached, closureAnimating>>

\* lines 12-52 in a task of its own: the effect of a committed render in
\* which animating is not what it was when the effect last ran
HomeEffectRun ==
    /\ closureAnimating # rendered
    /\ closureAnimating' = rendered
    /\ HomeEffect([replays |-> replays, timerQ |-> timerQ, frameQ |-> frameQ])
    /\ UNCHANGED rendered

\* lines 22-25 and line 63: the Random button, disabled in a render with
\* animating true; its listener calls the instance that has the listeners
HandleRandomClick ==
    /\ ~rendered
    /\ GenerateRandomGraph

\* lines 287-289: the timer callback requests a frame and records its id in
\* the instance of the replay
TimerFire ==
    /\ timerQ # <<>>
    /\ LET k == Head(timerQ)
           m == replays[k].inst
       IN  /\ timerQ' = Tail(timerQ)
           /\ frameQ' = Append(frameQ, [id |-> nextFrameId, rid |-> k])
           /\ IF m = 0
              THEN /\ animationFrameId' = nextFrameId
                   /\ UNCHANGED detached
              ELSE /\ detached' = [detached EXCEPT
                                      ![m].animationFrameId = nextFrameId]
                   /\ UNCHANGED animationFrameId
           /\ nextFrameId' = nextFrameId + 1
           /\ replays' = [replays EXCEPT ![k].phase = "frame"]
    /\ UNCHANGED <<nodes, distanceMatrix, animating, totalWeight, route, gen,
                   rendered, closureAnimating>>

\* lines 281-295: animateStep run as a frame callback
FrameFire ==
    /\ frameQ # <<>>
    /\ LET k == Head(frameQ).rid
           r == replays[k]
       IN  /\ frameQ' = Tail(frameQ)
           /\ IF HasMoreSteps(r.step, r.steps)
              THEN IF DrawThrows(InstanceNodes(r), r.steps, r.step)
                   THEN /\ replays' = [replays EXCEPT
                                          ![k].phase = "crashed",
                                          ![k].drawn = Append(@, r.step)]
                        /\ UNCHANGED <<timerQ, animating, totalWeight>>
                   ELSE /\ replays' = [replays EXCEPT
                                          ![k].step = StepAdvanced(@),
                                          ![k].drawn = Append(@, r.step),
                                          ![k].phase = "timer"]
                        /\ timerQ' = Append(timerQ, k)
                        /\ UNCHANGED <<animating, totalWeight>>
              ELSE /\ totalWeight' = r.totalCost
                   /\ animating' = FALSE
                   /\ replays' = [replays EXCEPT ![k].phase = "done"]
                   /\ UNCHANGED timerQ
    /\ UNCHANGED <<nodes, distanceMatrix, animationFrameId, nextFrameId, route,
                     gen, detached, rendered, closureAnimating>>

\* lines 12-19: Home is mounted; the effect constructs the visualizer and
\* generates the first graph
Init ==
    /\ nodes \in GenerateOutcomes
    /\ distanceMatrix = CalculateDistanceMatrix(nodes)
    /\ animationFrameId = Null
    /\ animating = FALSE
    /\ totalWeight = NullWeight
    /\ replays = <<>>
    /\ timerQ = <<>>
    /\ frameQ = <<>>
    /\ nextFrameId = 1
    /\ route = RouteIdle
    /\ gen = GenIdle
    /\ detached = <<>>
    /\ rendered = FALSE
    /\ closureAnimating = FALSE

\* the events of the page: the Random button, a click on the canvas, a
\* render that React has scheduled, the effect of a render, a timer that
\* fires, a frame callback that runs
Next ==
    \/ HandleRandomClick
    \/ \E p \in ClickPoints : HandleCanvasClick(p)
    \/ HomeCommit
    \/ HomeEffectRun
    \/ TimerFire
    \/ FrameFire

Spec == Init /\ [][Next]_vars

-----------------------------------------------------------------------------
(* One TSPVisualizer whose methods are called directly, from construction   *)
(* on, with callbacks that record the values passed to them: no Home, no    *)
(* effect.  startTSPAnimation is called with any start index.               *)

\* lines 85-87 and 91-100: the fields after the constructor
InitConstructed ==
    /\ nodes = <<>>
    /\ distanceMatrix = CalculateDistanceMatrix(<<>>)
    /\ animationFrameId = Null
    /\ animating = FALSE
    /\ totalWeight = NullWeight
    /\ replays = <<>>
    /\ timerQ = <<>>
    /\ frameQ = <<>>
    /\ nextFrameId = 1
    /\ route = RouteIdle
    /\ gen = GenIdle
    /\ detached = <<>>
    /\ rendered = FALSE
    /\ closureAnimating = FALSE

\* the start indices a direct call is given: below, within and above 0..N-1
StartIndices == (0 - 1)..NumPositions

StartRequest == \E i \in StartIndices : StartTSPAnimation(i)

NextApi ==
    \/ GenerateRandomGraph
    \/ \E p \in ClickPoints : HandleNodeClick(p)
    \/ TimerFire
    \/ FrameFire
    \/ StartRequest

SpecApi == InitConstructed /\ [][NextApi]_vars

-----------------------------------------------------------------------------
(* findMinRoute alone, on drawn matrices, one loop iteration per step *)

UpperPairs(n) == {pr \in (0..(n - 1)) \X (0..(n - 1)) : pr[1] < pr[2]}

SymmetricMatrix(n, u) ==
    [i \in 0..(n - 1) |->
        [j \in 0..(n - 1) |->
            IF i = j THEN Infinity
            ELSE IF i < j THEN u[<<i, j>>] ELSE u[<<j, i>>]]]

\* the matrices of size n with an infinite diagonal and symmetric
\* off-diagonal entries in 0..MaxDist
ValidMatrices(n) ==
    {SymmetricMatrix(n, u) : u \in [UpperPairs(n) -> 0..MaxDist]}

\* the integers next to the diagonal of a square of side 10, which lies
\* between them
SquareDiagonals == {14, 15}

\* a matrix given to findMinRoute as this.distanceMatrix, not one that
\* calculateDistanceMatrix returns: cities 0, 1, 2, 3 around a square, 10
\* between neighbours and d between opposite corners
SquareMatrix(d) ==
    SymmetricMatrix(4, [pr \in UpperPairs(4) |->
                           IF pr[2] - pr[1] = 2 THEN d ELSE 10])

SquareMatrices == {SquareMatrix(d) : d \in SquareDiagonals}

DrawnMatrices == UNION {ValidMatrices(n) : n \in 1..MaxN} \cup SquareMatrices

\* findMinRoute reads this.nodes only for its length
PlaceholderNodes(n) == [k \in 1..n |-> [x |-> 0, y |-> 0, id |-> k - 1]]

InitRoute ==
    /\ distanceMatrix \in DrawnMatrices
    /\ nodes = PlaceholderNodes(Cardinality(DOMAIN distanceMatrix))
    /\ animationFrameId = Null
    /\ animating = FALSE
    /\ totalWeight = NullWeight
    /\ replays = <<>>
    /\ timerQ = <<>>
    /\ frameQ = <<>>
    /\ nextFrameId = 1
    /\ route = RouteIdle
    /\ gen = GenIdle
    /\ detached = <<>>
    /\ rendered = FALSE
    /\ closureAnimating = FALSE

\* lines 377-383: the call, with a start id in 0..N-1
RouteCall ==
    /\ route.status = "idle"
    /\ \E start \in 0..(Len(nodes) - 1) : route' = RouteLocals(start)
    /\ UNCHANGED <<nodes, distanceMatrix, sessionVars, gen>>

\* lines 386-413: one iteration of the while loop
RouteIterate ==
    /\ route.status = "loop"
    /\ MoreToVisit(Len(nodes), route)
    /\ route' = LoopBody(distanceMatrix, Len(nodes), route)
    /\ UNCHANGED <<nodes, distanceMatrix, sessionVars, gen>>

\* lines 415-431: the loop has ended
RouteReturn ==
    /\ route.status = "loop"
    /\ ~MoreToVisit(Len(nodes), route)
    /\ route' = CloseTour(distanceMatrix, Len(nodes), route)
    /\ UNCHANGED <<nodes, distanceMatrix, sessionVars, gen>>

NextRoute == RouteCall \/ RouteIterate \/ RouteReturn

SpecRoute == InitRoute /\ [][NextRoute]_vars

\* findMinRoute runs synchronously: a call that can take a step takes it
SpecRouteRuns == SpecRoute /\ WF_vars(NextRoute)

-----------------------------------------------------------------------------
(* One TSPVisualizer that holds a full graph, its methods called directly, *)
(* with the browser's scheduling                                           *)

\* lines 145-161: the node list of the placements ps, ids in placement order
NodesAt(ps) ==
    [k \in 1..Len(ps) |-> [x |-> ps[k][1], y |-> ps[k][2], id |-> k - 1]]

\* minNumNodes points of PositionList that are pairwise minDistance apart
TrianglePoints == {PositionList[1], PositionList[2], PositionList[4]}

\* graphs generateRandomGraph leaves when numNodes = minNumNodes and the
\* draws are the triangle's points: the orders that put the first candidate
\* position at index 0, at index 1 and at index 2
TriangleGraphs ==
    {NodesAt(<<PositionList[1], PositionList[2], PositionList[4]>>),
     NodesAt(<<PositionList[4], PositionList[1], PositionList[2]>>),
     NodesAt(<<PositionList[2], PositionList[4], PositionList[1]>>)}

\* clicks given to a visualizer that holds a full graph: on the first
\* candidate position, on a point more than nodeRadius and less than
\* nodeRadius + 1 from it, and on a point away from every node
LiveClickPoints == {PositionList[1], <<120, 53>>, <<400, 300>>}

\* lines 85-100 and 117-173: the fields after the constructor and a
\* generateRandomGraph call that has placed the triangle
InitTriangle ==
    /\ nodes \in TriangleGraphs
    /\ distanceMatrix = CalculateDistanceMatrix(nodes)
    /\ animationFrameId = Null
    /\ animating = FALSE
    /\ totalWeight = NullWeight
    /\ replays = <<>>
    /\ timerQ = <<>>
    /\ frameQ = <<>>
    /\ nextFrameId = 1
    /\ route = RouteIdle
    /\ gen = GenIdle
    /\ detached = <<>>
    /\ rendered = FALSE
    /\ closureAnimating = FALSE

\* the calls of a visualizer that holds a full graph, and its callbacks
NextLive ==
    \/ GenerateRandomGraph
    \/ \E p \in LiveClickPoints : HandleNodeClick(p)
    \/ TimerFire
    \/ FrameFire

\* line 285 and line 287: a timer that is armed fires, and a frame callback
\* that is requested and not canceled runs
SpecLive ==
    /\ InitTriangle
    /\ [][NextLive]_vars
    /\ WF_vars(TimerFire)
    /\ WF_vars(FrameFire)

-----------------------------------------------------------------------------
(* calculateDistanceMatrix on its own *)

\* Points of the canvas on one line, any two at least minDistance apart and
\* at a distance that is a multiple of 5; some pairs are farther apart than
\* distanceCap / 0.2.
MatrixPoints ==
    {<<110, 50>>, <<150, 50>>, <<400, 50>>, <<650, 50>>, <<710, 50>>}

\* the lists of n of these points, no point twice
RECURSIVE PointLists(_)
PointLists(n) ==
    IF n = 0 THEN {<<>>}
    ELSE UNION {{Append(ps, p) :
                    p \in MatrixPoints \ {ps[k] : k \in 1..Len(ps)}} :
                ps \in PointLists(n - 1)}

\* this.nodes is any list of at most MaxMatrixNodes of the points, and
\* calculateDistanceMatrix has not run on it yet
InitMatrix ==
    /\ \E n \in 0..MaxMatrixNodes : nodes \in {NodesAt(ps) : ps \in PointLists(n)}
    /\ distanceMatrix = <<>>
    /\ animationFrameId = Null
    /\ animating = FALSE
    /\ totalWeight = NullWeight
    /\ replays = <<>>
    /\ timerQ = <<>>
    /\ frameQ = <<>>
    /\ nextFrameId = 1
    /\ route = RouteIdle
    /\ gen = GenIdle
    /\ detached = <<>>
    /\ rendered = FALSE
    /\ closureAnimating = FALSE

\* lines 176-200
CalculateDistanceMatrixCall ==
    /\ distanceMatrix' = CalculateDistanceMatrix(nodes)
    /\ UNCHANGED <<nodes, sessionVars, route, gen>>

SpecMatrix == InitMatrix /\ [][CalculateDistanceMatrixCall]_vars

-----------------------------------------------------------------------------
(* One generateRandomGraph call, followed draw by draw, from construction.  *)
(* The call clears this.nodes and overwrites this.distanceMatrix, so a      *)
(* later call goes through the same states as the first.                    *)

\* lines 117-140: up to the first test of the for loop
GenerateBegin ==
    LET gone == CancelledReplays(frameQ, animationFrameId)
    IN  /\ gen.pc = "idle"
        /\ \E k \in NumNodesChoices :
              gen' = [GenIdle EXCEPT !.pc = "for", !.numNodes = k]
        /\ nodes' = <<>>
        /\ frameQ' = CancelOngoing(frameQ, animationFrameId)
        /\ animationFrameId' = Null
        /\ animating' = FALSE
        /\ totalWeight' = NullWeight
        /\ replays' = [k \in DOMAIN replays |->
                         [replays[k] EXCEPT
                            !.phase = IF k \in gone THEN "canceled" ELSE @,
                            !.cancelRequested =
                                @ \/ (Running(replays[k]) /\ replays[k].inst = 0)]]
        /\ UNCHANGED <<distanceMatrix, timerQ, nextFrameId, route, detached,
                       rendered, closureAnimating>>

\* lines 141-144: the test of the for loop and the locals of an iteration
ForTest ==
    /\ gen.pc = "for"
    /\ gen' = IF gen.i < gen.numNodes
              THEN [gen EXCEPT !.pc = "while", !.validPosition = FALSE,
                               !.attempts = 0]
              ELSE [gen EXCEPT !.pc = "matrix"]
    /\ UNCHANGED <<nodes, distanceMatrix, sessionVars, route>>

\* lines 146-152: one draw
DrawPosition ==
    /\ gen.pc = "while"
    /\ ~gen.validPosition /\ gen.attempts < maxAttempts
    /\ \E p \in PlacePositions :
          gen' = [gen EXCEPT
                    !.x = p[1], !.y = p[2],
                    !.validPosition =
                        IsValidNodePosition(nodes, p[1], p[2], minDistance),
                    !.attempts = @ + 1]
    /\ UNCHANGED <<nodes, distanceMatrix, sessionVars, route>>

\* lines 155-165: after the while loop, break or push
PlaceOrStop ==
    /\ gen.pc = "while"
    /\ ~(~gen.validPosition /\ gen.attempts < maxAttempts)
    /\ IF ~gen.validPosition
       THEN /\ gen' = StopPlacing(gen)
            /\ UNCHANGED nodes
       ELSE /\ nodes' = Append(nodes, [x |-> gen.x, y |-> gen.y, id |-> gen.i])
            /\ gen' = [gen EXCEPT !.pc = "for", !.i = @ + 1, !.x = 0, !.y = 0]
    /\ UNCHANGED <<distanceMatrix, sessionVars, route>>

\* lines 168-173
GenerateEnd ==
    /\ gen.pc = "matrix"
    /\ distanceMatrix' = CalculateDistanceMatrix(nodes)
    /\ gen' = [gen EXCEPT !.pc = "returned"]
    /\ UNCHANGED <<nodes, sessionVars, route>>

NextPlace ==
    \/ GenerateBegin
    \/ ForTest
    \/ DrawPosition
    \/ PlaceOrStop
    \/ GenerateEnd

SpecPlace == InitConstructed /\ [][NextPlace]_vars

-----------------------------------------------------------------------------
(* Sanity of the model *)

\* the scaled distances of the candidate positions are computed exactly
PositionsExact ==
    \A k \in 1..Len(nodes) : \A m \in 1..Len(nodes) :
        LET d2 == SquaredDistance(nodes[k].x, nodes[k].y, nodes[m].x, nodes[m].y)
        IN  AtCap(d2) \/
                \E r \in 0..(canvasWidth + canvasHeight) :
                    r * r = d2 /\ (r * scaleNum) % scaleDen = 0

\* the stepped call and the call run to its end agree
RouteAgrees ==
    route.status = "done" =>
        route = FindMinRoute(distanceMatrix, Len(nodes), route.start)

\* a call followed draw by draw whose nodes are all at Positions returns a
\* node list that the call taken as one step can return
PlacementAgrees ==
    (/\ gen.pc = "returned"
     /\ \A k \in 1..Len(nodes) : <<nodes[k].x, nodes[k].y>> \in Positions)
        => nodes \in GenerateOutcomes

QueuesConsistent ==
    /\ \A k \in DOMAIN replays :
          /\ (replays[k].phase = "timer") =
                (\E m \in DOMAIN timerQ : timerQ[m] = k)
          /\ (replays[k].phase = "frame") =
                (\E m \in DOMAIN frameQ : frameQ[m].rid = k)
    /\ \A m \in DOMAIN frameQ : frameQ[m].id < nextFrameId
    /\ animationFrameId < nextFrameId
    /\ \A m \in DOMAIN detached : detached[m].animationFrameId < nextFrameId
    /\ \A k \in DOMAIN replays : replays[k].inst \in 0..Len(detached)

-----------------------------------------------------------------------------
(* The claims *)

\* drawAnimationStep was called for replay k in this step: its tick index
\* advanced, or the call threw and ended the replay
TickRendered(k) ==
    \/ replays'[k].step # replays[k].step
    \/ replays'[k].phase = "crashed" /\ replays[k].phase # "crashed"

RunningReplays == {k \in DOMAIN replays : Running(replays[k])}

\* C1: once a generate request has been made while a replay was Running,
\* drawAnimationStep is never called again for that replay.
C1_NoTickAfterCancel ==
    [][\A k \in DOMAIN replays :
          replays[k].cancelRequested => ~TickRendered(k)]_vars

\* C2: a replay canceled by a generate request never reaches the completion
\* branch (setTotalWeight(totalCost), setAnimating(false)).
C2_NoCompletionAfterCancel ==
    \A k \in DOMAIN replays :
        replays[k].cancelRequested => replays[k].phase # "done"

\* C3: at most one replay has a pending wake-up (timer or frame) at any time.
C3_AtMostOneActiveReplay == Cardinality(RunningReplays) <= 1

\* C4: whenever a tick of a replay is rendered, this.nodes and
\* this.distanceMatrix are the ones the replay's tour was built from.
C4_NoStalePointSet ==
    [][\A k \in DOMAIN replays :
          TickRendered(k) =>
              /\ nodes = replays[k].builtFrom
              /\ distanceMatrix = CalculateDistanceMatrix(replays[k].builtFrom)]_vars

\* C5: a canvas click that arrives while a replay is Running changes nothing:
\* no replay is created, no signal fires, no pending wake-up is touched.
C5_ClickWhileRunningIgnored ==
    [][((\E p \in ClickPoints : HandleCanvasClick(p)) /\ SomeRunning)
          => UNCHANGED <<replays, timerQ, frameQ, animating, totalWeight,
                         animationFrameId>>]_vars

\* the ids of 0..n-1 each occur exactly once among the first n of the path
VisitsEachOnce(path, n) ==
    \A c \in 0..(n - 1) :
        Cardinality({k \in 1..n : path[k] = c}) = 1

\* C6: for a valid matrix of size N >= 2 and a start id in 0..N-1 the
\* returned steps have length N, finalPath has length N+1, begins and ends
\* with the start id, and holds every id exactly once in its first N places.
C6_TourShape ==
    (route.status = "done" /\ Len(nodes) >= 2) =>
        /\ Len(route.steps) = Len(nodes)
        /\ Len(route.path) = Len(nodes) + 1
        /\ route.path[1] = route.start
        /\ route.path[Len(nodes) + 1] = route.start
        /\ VisitsEachOnce(route.path, Len(nodes))

C6_Witness ==
    /\ route.status = "done"
    /\ Len(nodes) = 3
    /\ route.start = 2
    /\ Len(route.path) = 4

\* C7: with a 1x1 matrix and start id 0 the call returns totalCost = 0,
\* finalPath = [0] and steps = [].
C7_SingleCityTour ==
    (route.status = "done" /\ Len(nodes) = 1) =>
        /\ route.totalCost = 0
        /\ route.path = <<0>>
        /\ route.steps = <<>>

\* C8: a direct tour-start request with no nodes or with a start id outside
\* 0..N-1 produces no replay and leaves the animating and weight signals
\* as they were.
C8_InvalidStartRejected ==
    [][\A i \in StartIndices :
          (StartTSPAnimation(i) /\ i \notin 0..(Len(nodes) - 1))
              => UNCHANGED <<replays, animating, totalWeight>>]_vars

\* the cities not yet on the path when a step was recorded
UnvisitedAt(st, n) ==
    (0..(n - 1)) \ {st.currentPath[k] : k \in 1..Len(st.currentPath)}

\* C9: every expansion step goes to the lowest-index city among the
\* unvisited cities at minimal distance from the current city; a square of
\* side 10 from start 0 gives the tour 0,1,2,3,0 with total cost 40.
C9_LowestIndexNearest ==
    /\ \A k \in 1..Len(route.steps) :
          k < Len(nodes) =>
              LET st  == route.steps[k]
                  row == distanceMatrix[st.currentCity]
              IN  /\ st.nextCity \in UnvisitedAt(st, Len(nodes))
                  /\ st.costAdded = row[st.nextCity]
                  /\ \A j \in UnvisitedAt(st, Len(nodes)) :
                        /\ row[st.nextCity] <= row[j]
                        /\ row[j] = row[st.nextCity] => st.nextCity <= j
    /\ (/\ route.status = "done"
        /\ distanceMatrix \in SquareMatrices
        /\ route.start = 0)
          => /\ route.path = <<0, 1, 2, 3, 0>>
             /\ route.totalCost = 40

\* a finished call in which some expansion step had two unvisited cities
\* p < q tied at the minimal distance, and a finished call on the square
C9_Witness ==
    /\ route.status = "done"
    /\ distanceMatrix \in SquareMatrices
    /\ route.start = 0
    /\ \E k \in 1..(Len(nodes) - 1) :
          LET st  == route.steps[k]
              row == distanceMatrix[st.currentCity]
          IN  \E q \in UnvisitedAt(st, Len(nodes)) :
                  q > st.nextCity /\ row[q] = row[st.nextCity]

RECURSIVE SumCostAdded(_)
SumCostAdded(steps) ==
    IF steps = <<>> THEN 0
    ELSE Plus(SumCostAdded(SubSeq(steps, 1, Len(steps) - 1)),
              steps[Len(steps)].costAdded)

\* C10: the totalCost findMinRoute returns is the sum of costAdded over the
\* steps it returns.
C10_TotalIsSumOfSteps ==
    route.status = "done" => route.totalCost = SumCostAdded(route.steps)

C10_Witness ==
    /\ route.status = "done"
    /\ Len(route.steps) = 3
    /\ route.totalCost = 5
    /\ \E k \in 1..3 : route.steps[k].costAdded = 2

\* generateRandomGraph was called on the instance of replay k while it was
\* Running, or a later start request canceled its pending frame
Canceled(k) == replays[k].cancelRequested \/ replays[k].phase = "canceled"

Completed(k) == replays[k].phase = "done"

\* the completion branch ran for replay k in this step
Completes(k) ==
    /\ k \in DOMAIN replays'
    /\ Completed(k)'
    /\ k \in DOMAIN replays => ~Completed(k)

\* C11: a replay that is started and never canceled eventually completes;
\* its completion branch runs after exactly Len(steps) ticks, sets the total
\* weight to totalCost and animating to false, and runs once: afterwards the
\* replay stays completed and none of its ticks is rendered.
C11_UncanceledReplayCompletes ==
    /\ \A k \in 1..MaxReplays :
          (k \in DOMAIN replays) ~>
              (k \in DOMAIN replays /\ (Completed(k) \/ Canceled(k)))
    /\ [][\A k \in 1..MaxReplays :
            /\ (Completes(k) /\ ~Canceled(k)') =>
                  /\ replays'[k].step = Len(replays'[k].steps)
                  /\ Len(replays'[k].drawn) = Len(replays'[k].steps)
                  /\ totalWeight' = replays'[k].totalCost
                  /\ animating' = FALSE
            /\ (k \in DOMAIN replays /\ Completed(k)) =>
                  /\ Completed(k)'
                  /\ replays'[k].drawn = replays[k].drawn]_vars

C11_Witness ==
    \E k \in DOMAIN replays :
        /\ Completed(k) /\ ~Canceled(k)
        /\ Len(replays[k].steps) = minNumNodes
        /\ Len(replays[k].drawn) = minNumNodes
        /\ totalWeight = replays[k].totalCost

\* the tick indices 0, 1, ..., n - 1 in that order
FirstTicks(n) == [i \in 1..n |-> i - 1]

\* C12: in every replay, whatever requests come between its ticks, the
\* steps drawAnimationStep is called with are 0, 1, 2, ... in that order,
\* each once, and one state change of the session renders at most one of
\* them.
C12_TicksInStepOrder ==
    [][\A k \in DOMAIN replays' :
          LET before == IF k \in DOMAIN replays THEN replays[k].drawn ELSE <<>>
              after  == replays'[k].drawn
          IN  /\ after = FirstTicks(Len(after))
              /\ Len(after) <= Len(replays'[k].steps)
              /\ Len(before) <= Len(after)
              /\ Len(after) <= Len(before) + 1]_vars

\* two replays of one instance tick side by side, and a generate request
\* reaches both: one has rendered all its ticks in order and has its
\* completion pending, the other has rendered its ticks in order up to the
\* one whose drawAnimationStep call threw on the new node list
C12_Witness ==
    \E k \in DOMAIN replays : \E m \in DOMAIN replays :
        /\ k # m
        /\ Running(replays[k])
        /\ replays[k].drawn = FirstTicks(minNumNodes)
        /\ replays[m].cancelRequested
        /\ replays[m].phase = "crashed"
        /\ Len(replays[m].drawn) >= 2
        /\ replays[m].drawn = FirstTicks(Len(replays[m].drawn))

\* C13: every matrix calculateDistanceMatrix produces has Infinity on its
\* diagonal, is symmetric, and has every off-diagonal entry between 0 and
\* distanceCap.
C13_MatrixShape ==
    \A i \in DOMAIN distanceMatrix :
        /\ DOMAIN distanceMatrix[i] = DOMAIN distanceMatrix
        /\ distanceMatrix[i][i] = Infinity
        /\ \A j \in DOMAIN distanceMatrix \ {i} :
              /\ distanceMatrix[i][j] = distanceMatrix[j][i]
              /\ 0 <= distanceMatrix[i][j]
              /\ distanceMatrix[i][j] <= distanceCap

\* a matrix of three nodes with a capped entry and an entry below the cap
C13_Witness ==
    /\ Len(nodes) = minNumNodes
    /\ DOMAIN distanceMatrix = 0..(minNumNodes - 1)
    /\ \E i, j \in DOMAIN distanceMatrix :
          /\ i # j
          /\ distanceMatrix[i][j] = distanceCap
          /\ SquaredDistance(nodes[i + 1].x, nodes[i + 1].y,
                             nodes[j + 1].x, nodes[j + 1].y)
                * scaleNum * scaleNum
                > (distanceCap * scaleDen) * (distanceCap * scaleDen)
    /\ \E i, j \in DOMAIN distanceMatrix :
          i # j /\ distanceMatrix[i][j] < distanceCap

\* any two nodes of the list are at least minDistance apart
PairwiseApart(ns) ==
    \A a, b \in 1..Len(ns) :
        a # b =>
            SquaredDistance(ns[a].x, ns[a].y, ns[b].x, ns[b].y)
                >= minDistance * minDistance

\* C14: in the point set of every generateRandomGraph call, any two points
\* are at least minDistance apart; this holds for the sets with as many
\* points as intended and also for those the break of line 158 left shorter.
C14_PointsApart ==
    /\ PairwiseApart(nodes)
    /\ gen.pc = "returned" => (Len(nodes) < gen.numNodes <=> gen.broke)

\* a returned point set with as many points as intended
C14_Witness ==
    /\ gen.pc = "returned"
    /\ ~gen.broke
    /\ Len(nodes) = gen.numNodes
    /\ Len(nodes) >= minNumNodes

\* C15: in the trace findMinRoute returns, the path recorded in the k-th
\* step (counted from 1) has k cities, begins with the start id and ends with
\* the city the step leaves; every step leaves the city the step before it
\* went to, and the last step goes to the start id.
C15_StepChain ==
    route.status = "done" =>
        \A k \in 1..Len(route.steps) :
            LET st == route.steps[k]
            IN  /\ Len(st.currentPath) = k
                /\ st.currentPath[1] = route.start
                /\ st.currentPath[k] = st.currentCity
                /\ k < Len(route.steps) =>
                      st.nextCity = route.steps[k + 1].currentCity
                /\ k = Len(route.steps) => st.nextCity = route.start

\* a returned trace of at least three steps from a start id other than 0
C15_Witness ==
    /\ route.status = "done"
    /\ route.start # 0
    /\ Len(route.steps) >= minNumNodes
    /\ Len(route.steps[Len(route.steps)].currentPath) = Len(route.steps)

\* the id of every node of the list is its position, counted from 0
IdsArePositions(ns) == \A k \in 1..Len(ns) : ns[k].id = k - 1

\* C16: when maxAttempts draws gave no valid position for node i, the call
\* stops placing with the i nodes it has, draws no further position, and
\* returns after calculateDistanceMatrix; in every node list, shortened or
\* not, the node at position k has id k.
C16_StopsAndNumbers ==
    /\ [](IdsArePositions(nodes))
    /\ [](gen.broke =>
            /\ gen.pc \in {"matrix", "returned"}
            /\ Len(nodes) = gen.i
            /\ Len(nodes) < gen.numNodes
            /\ gen.attempts = maxAttempts)
    /\ [](gen.pc = "returned" =>
            distanceMatrix = CalculateDistanceMatrix(nodes))
    /\ [][(gen.pc = "while" /\ ~gen.validPosition
                            /\ gen.attempts >= maxAttempts)
            => (gen'.broke /\ nodes' = nodes)]_vars
    /\ [][gen.broke =>
            /\ nodes' = nodes
            /\ gen'.broke
            /\ gen'.attempts = gen.attempts
            /\ gen'.pc = "returned"]_vars

\* a call returned two nodes where three or more were intended
C16_Witness ==
    /\ gen.pc = "returned"
    /\ gen.broke
    /\ Len(nodes) = 2
    /\ IdsArePositions(nodes)
    /\ distanceMatrix = CalculateDistanceMatrix(nodes)

\* C17: for every matrix with finite off-diagonal entries and every start
\* id in 0..N-1, findMinRoute returns; every iteration of its while loop adds
\* one city that was not visited and one step, and the loop ends after N - 1
\* iterations.
C17_RouteTerminates ==
    /\ (route.status = "loop") ~> (route.status = "done")
    /\ [](route.status = "loop" =>
            /\ Len(route.steps) = Cardinality(route.visitedCities) - 1
            /\ Cardinality(route.visitedCities) <= Len(nodes))
    /\ [](route.status = "done" => Len(route.steps) = (Len(nodes) - 1) + 1)
    /\ [][(route.status = "loop" /\ route'.status = "loop") =>
            \E c \in (0..(Len(nodes) - 1)) \ route.visitedCities :
                /\ route'.visitedCities = route.visitedCities \cup {c}
                /\ route'.currentCity = c
                /\ Len(route'.steps) = Len(route.steps) + 1]_vars

\* a call on at least three cities returned after visiting all of them
C17_Witness ==
    /\ route.status = "done"
    /\ Len(nodes) >= minNumNodes
    /\ Cardinality(route.visitedCities) = Len(nodes)
    /\ Len(route.steps) = Len(nodes)

\* C18: in every reachable state the last value passed to setAnimating is
\* true exactly when some replay still has a tick or its completion pending
\* (its timer is armed or its frame is requested).
C18_AnimatingTracksReplay == animating = SomeRunning

=============================================================================
